---- MODULE Spec2Model ----
(***************************************************************************)
(* OrderBookManager of market_maker_keeper/order_book.py as a state        *)
(* machine: the background refresher, the tasks launched by place_order    *)
(* and cancel_order, and one keeper thread calling get_order_book,         *)
(* place_order and cancel_order.                                           *)
(*                                                                         *)
(* Every `with self._lock:` block is one step: it needs the lock free,     *)
(* runs the block and leaves the lock as the block leaves it.  Everything  *)
(* the code does outside such a block (a collaborator call, the reads of   *)
(* lines 170-172) is a step of its own, so other threads run in between.   *)
(***************************************************************************)
EXTENDS Integers, Sequences, FiniteSets, Bags, TLC

(* ---------------------------------------------------------------- bounds *)
\* The Order objects the collaborators hand out.  Two orders are equal
\* (Python ==, hash) exactly when they are the same record here: these are
\* two different objects that carry the same order_id.
Orders == {[order_id |-> 1, tag |-> "x"], [order_id |-> 1, tag |-> "y"]}

Ids == {o.order_id : o \in Orders}

\* values the balances-provider may return
BalanceVals == {"b1", "b2"}
\* placements launched and not yet retired from _orders_placed
MaxPlaced == 2
\* cancellation tasks in flight at once
MaxCancelling == 2
\* successful polls
MaxRefresh == 2

\* Python's None where a balances value is expected
None == "None"

\* Python's None where an Order is expected
NoOrder == [order_id |-> 0, tag |-> "None"]

\* Python's None where self._state is expected; a value v is <<v>>
Absent == <<>>

VARIABLES
    get_balances_function, \* TRUE when get_balances_with() configured one
    lock,                  \* holder of self._lock, or "free"
    state,                 \* self._state: Absent or <<[orders, balances]>>
    refresh_count,         \* self._refresh_count
    placing,               \* self._currently_placing_orders
    placed,                \* self._orders_placed (list)
    cancelling,            \* self._order_ids_cancelling
    cancelled,             \* self._order_ids_cancelled
    r_pc,                  \* position of _thread_refresh_order_book
    r_before,              \* its locals orders_already_{cancelled,placed}_before
    r_len,                 \* len(self._orders_placed) when line 237 copied it
    ptasks,                \* bag of running place_order tasks
    ctasks,                \* bag of running cancel_order tasks
    k_pc,                  \* position of the keeper thread in get_order_book
    k_orders,              \* get_order_book: `orders`, then the balances and flag read so far
    k_old,                 \* wait_for_order_book_refresh: old_counter
    k_atomic,              \* what the state held when `orders` was computed: the balances,
                           \* the ids hidden by a cancellation, whether a placement ran
    remote,                \* orders open on the exchange
    seen,                  \* the open orders the orders-provider saw when it answered
    used,                  \* ids the exchange has handed out
    recorded,              \* ids whose cancellation was confirmed and recorded
    gave_up                \* ids a task failed to cancel since cancel_order was last called

shared == <<state, refresh_count, placing, placed, cancelling, cancelled>>
refresher == <<r_pc, r_before, r_len>>
keeper == <<k_pc, k_orders, k_atomic, k_old>>
env == <<remote, seen, used, recorded, gave_up>>
vars == <<get_balances_function, lock, shared, refresher, ptasks, ctasks, keeper, env>>

(* --------------------------------------------------------------- helpers *)
Range(s) == {s[i] : i \in DOMAIN s}

OrderIds(s) == {s[i].order_id : i \in DOMAIN s}

OneBag(x) == SetToBag({x})

DistinctIds(s) == \A i, j \in DOMAIN s : i # j => s[i].order_id # s[j].order_id

\* the lists over the orders `S` with pairwise distinct ids
ListsOf(S) ==
    {s \in UNION {[1..n -> S] : n \in 0..Cardinality(Ids)} : DistinctIds(s)}

\* what the orders-provider may return: any list with pairwise distinct ids
ProviderResults == ListsOf(Orders)

NoLocals == [cancelled |-> {}, placed |-> {}]
NoOrders == [orders |-> <<>>, balances |-> None, placing |-> FALSE]

OrderBook(orders, balances, orders_being_placed, orders_being_cancelled) ==
    [orders |-> orders, balances |-> balances,
     orders_being_placed |-> orders_being_placed,
     orders_being_cancelled |-> orders_being_cancelled]

(* ------------------------------------------------------------------ Init *)
\* __init__ (lines 97-103), get_orders_with, optionally get_balances_with, start
Init ==
    /\ get_balances_function \in BOOLEAN
    /\ lock = "free"
    /\ state = Absent
    /\ refresh_count = 0
    /\ placing = 0
    /\ placed = <<>>
    /\ cancelling = {}
    /\ cancelled = {}
    /\ r_pc = "idle"
    /\ r_before = NoLocals
    /\ r_len = 0
    /\ ptasks = EmptyBag
    /\ ctasks = EmptyBag
    /\ k_pc = "idle"
    /\ k_orders = NoOrders
    /\ k_atomic = Absent
    /\ k_old = 0
    /\ remote = {}
    /\ seen = {}
    /\ used = {}
    /\ recorded = {}
    /\ gave_up = {}

(* ------------------------------------------------------------ Compositor *)
\* lines 158-161 with line 160 comparing orders instead of their ids
RECURSIVE AddPlacedByEquality(_, _)
AddPlacedByEquality(orders, pl) ==
    IF pl = <<>> THEN orders
    ELSE AddPlacedByEquality(IF Head(pl) \notin Range(orders)
                             THEN Append(orders, Head(pl)) ELSE orders,
                             Tail(pl))

\* lines 158-161 with line 161 putting the order in front of the list
RECURSIVE AddPlacedInFront(_, _)
AddPlacedInFront(orders, pl) ==
    IF pl = <<>> THEN orders
    ELSE AddPlacedInFront(IF Head(pl).order_id \notin OrderIds(orders)
                          THEN <<Head(pl)>> \o orders ELSE orders,
                          Tail(pl))

\* get_order_book, lines 158-161: append each placed order whose id is not yet listed
RECURSIVE AddPlaced(_, _)
AddPlaced(orders, pl) ==
    IF pl = <<>> THEN orders
    ELSE AddPlaced(IF Head(pl).order_id \notin OrderIds(orders)
                   THEN Append(orders, Head(pl)) ELSE orders,
                   Tail(pl))

\* lines 164-165 without the test against self._order_ids_cancelled
FilterCancellingOnly(orders, cing, ced) ==
    SelectSeq(orders, LAMBDA o : o.order_id \notin cing)

\* get_order_book, lines 164-165: drop orders being cancelled or already cancelled
FilterCancelled(orders, cing, ced) ==
    SelectSeq(orders, LAMBDA o : o.order_id \notin cing /\ o.order_id \notin ced)

\* the `orders` list of get_order_book, lines 158-165
ComposedOrders == FilterCancelled(AddPlaced(state[1].orders, placed), cancelling, cancelled)

(* ------------------------------------------------------------- Refresher *)
\* list.remove(x): drop the first element equal to x
RECURSIVE RemoveFirst(_, _)
RemoveFirst(s, x) ==
    IF s = <<>> THEN s
    ELSE IF Head(s) = x THEN Tail(s)
    ELSE <<Head(s)>> \o RemoveFirst(Tail(s), x)

\* lines 245-246 left out: a poll retires no placed order
RemoveNone(s, S) == s

\* lines 245-246 emptying self._orders_placed instead of removing the captured orders
RemoveAll(s, S) == <<>>

\* lines 245-246: for order in orders_already_placed_before: self._orders_placed.remove(order)
RECURSIVE RemoveEach(_, _)
RemoveEach(s, S) ==
    IF S = {} THEN s
    ELSE LET x == CHOOSE y \in S : TRUE
         IN RemoveEach(RemoveFirst(s, x), S \ {x})

\* line 244 left out: a poll retires no recorded cancellation
CancelledKept(now, before) == now

\* line 244: self._order_ids_cancelled - orders_already_cancelled_before
CancelledAfterPoll(now, before) == now \ before

\* lines 235-237 with the provider calls inside the `with self._lock:` block
CaptureKeeps == "refresher"

\* the lock once the `with self._lock:` block of lines 235-237 is left
CaptureRelease == "free"

\* lines 259 and 233-237: the sleep ends, the next cycle copies both trackers
RefreshCapture ==
    /\ r_pc \in {"idle", "failed"}
    /\ refresh_count < MaxRefresh
    /\ lock = "free"
    /\ r_before' = [cancelled |-> cancelled, placed |-> Range(placed)]
    /\ r_len' = Len(placed)
    /\ lock' = CaptureRelease
    /\ r_pc' = "get_orders"
    /\ UNCHANGED <<get_balances_function, shared, ptasks, ctasks, keeper, env>>

\* line 240: self.get_orders_function() returns.  No step reads the list it
\* returned before line 251 does, so Reconcile is where the list is named.
GetOrdersReturns ==
    /\ r_pc = "get_orders"
    /\ r_pc' = IF get_balances_function THEN "get_balances" ELSE "reconcile"
    /\ UNCHANGED <<get_balances_function, lock, shared, r_before, r_len, ptasks, ctasks,
                   keeper, used, recorded, gave_up>>

\* line 241: self.get_balances_function() returns; its value is named in Reconcile
GetBalancesReturns ==
    /\ r_pc = "get_balances"
    /\ r_pc' = "reconcile"
    /\ UNCHANGED <<get_balances_function, lock, shared, r_before, r_len, ptasks, ctasks,
                   keeper, env>>

\* lines 256-259 with the trackers reset by the except clause
PollFailedResets ==
    /\ r_before' = NoLocals
    /\ r_len' = 0
    /\ r_pc' = "failed"
    /\ cancelled' = {}
    /\ placed' = <<>>
    /\ UNCHANGED <<get_balances_function, lock, state, refresh_count, placing, cancelling,
                   ptasks, ctasks, keeper, env>>

\* lines 256-259 with the snapshot dropped by the except clause
PollFailedForgets ==
    /\ r_before' = NoLocals
    /\ r_len' = 0
    /\ r_pc' = "failed"
    /\ state' = Absent
    /\ UNCHANGED <<get_balances_function, lock, refresh_count, placing, placed, cancelling,
                   cancelled, ptasks, ctasks, keeper, env>>

\* lines 256-259: a provider raised; the cycle is abandoned and the loop sleeps
PollFailed ==
    /\ r_before' = NoLocals
    /\ r_len' = 0
    /\ r_pc' = "failed"
    /\ UNCHANGED <<get_balances_function, lock, shared, ptasks, ctasks, keeper, env>>

\* line 240 raises
GetOrdersRaises ==
    /\ r_pc = "get_orders"
    /\ PollFailed

\* line 241 raises
GetBalancesRaises ==
    /\ r_pc = "get_balances"
    /\ PollFailed

\* line 241: None when no balances function is configured
BalancesResults == IF get_balances_function THEN BalanceVals ELSE {None}

\* lines 243-252, with `orders` and `balances` the values lines 240-241
\* returned.  list.remove raises ValueError for an order no longer in the
\* list: the except clause of line 256 then leaves line 244 and the removals
\* made so far in place.
Reconcile(orders, balances) ==
    /\ r_pc = "reconcile"
    /\ lock = "free"
    /\ cancelled' = CancelledAfterPoll(cancelled, r_before.cancelled)
    /\ IF r_before.placed \subseteq Range(placed)
       THEN /\ placed' = RemoveEach(placed, r_before.placed)
            /\ state' = <<[orders |-> orders, balances |-> balances]>>
            /\ refresh_count' = refresh_count + 1
       ELSE /\ \E S \in SUBSET (r_before.placed \cap Range(placed)) :
                  placed' = RemoveEach(placed, S)
            /\ UNCHANGED <<state, refresh_count>>
    /\ lock' = "free"
    /\ r_before' = NoLocals
    /\ r_len' = 0
    /\ r_pc' = IF r_before.placed \subseteq Range(placed) THEN "idle" ELSE "failed"
    /\ UNCHANGED <<get_balances_function, placing, cancelling, ptasks, ctasks, keeper, env>>

(* ----------------------------------------------------- place_order tasks *)
PlaceTask(pc, order) == [pc |-> pc, order |-> order]

\* a task of ptasks moves from `t` to `u`
PlaceTaskStep(t, u) == ptasks' = (ptasks (-) OneBag(t)) (+) OneBag(u)

\* line 266: place_order_function() returns an Order, or None
PlacerReturns(t, new_order) ==
    /\ BagIn(t, ptasks)
    /\ t.pc = "call"
    /\ PlaceTaskStep(t, IF new_order # NoOrder THEN PlaceTask("append", new_order)
                        ELSE PlaceTask("finally", NoOrder))
    /\ UNCHANGED <<get_balances_function, lock, shared, refresher, ctasks, keeper>>

\* line 266 raises and the task dies without the finally clause of lines 271-273
PlacerRaisesNoFinally(t) ==
    /\ BagIn(t, ptasks)
    /\ t.pc = "call"
    /\ ptasks' = ptasks (-) OneBag(t)
    /\ UNCHANGED <<get_balances_function, lock, shared, refresher, ctasks, keeper>>

\* line 266 raises: the finally clause runs
PlacerRaises(t) ==
    /\ BagIn(t, ptasks)
    /\ t.pc = "call"
    /\ PlaceTaskStep(t, PlaceTask("finally", NoOrder))
    /\ UNCHANGED <<get_balances_function, lock, shared, refresher, ctasks, keeper>>

\* lines 269-270
PlaceAppend(t) ==
    /\ BagIn(t, ptasks)
    /\ t.pc = "append"
    /\ lock = "free"
    /\ placed' = Append(placed, t.order)
    /\ lock' = "free"
    /\ PlaceTaskStep(t, PlaceTask("finally", NoOrder))
    /\ UNCHANGED <<get_balances_function, state, refresh_count, placing, cancelling,
                   cancelled, refresher, ctasks, keeper, env>>

\* line 273 left out: the count is never taken back
PlacingNotDecremented(n) == n

\* line 273: self._currently_placing_orders -= 1
PlacingAfterTask(n) == n - 1

\* lines 272-273, and the task ends
PlaceFinally(t) ==
    /\ BagIn(t, ptasks)
    /\ t.pc = "finally"
    /\ lock = "free"
    /\ placing' = PlacingAfterTask(placing)
    /\ lock' = "free"
    /\ ptasks' = ptasks (-) OneBag(t)
    /\ UNCHANGED <<get_balances_function, state, refresh_count, placed, cancelling,
                   cancelled, refresher, ctasks, keeper, env>>

(* ---------------------------------------------------- cancel_order tasks *)
\* `ok`: whether cancel_order_function() returned a truthy value (line 283)
CancelTask(order_id, pc, ok) == [order_id |-> order_id, pc |-> pc, ok |-> ok]

CancelTaskStep(t, u) == ctasks' = (ctasks (-) OneBag(t)) (+) OneBag(u)

\* line 283: cancel_order_function() returns a truthy or a falsy value
CancellerReturns(t, result) ==
    /\ BagIn(t, ctasks)
    /\ t.pc = "call"
    /\ CancelTaskStep(t, CancelTask(t.order_id, IF result THEN "record" ELSE "finally", result))
    /\ UNCHANGED <<get_balances_function, lock, shared, refresher, ptasks, keeper>>

\* line 283 raises: the finally clause runs
CancellerRaises(t) ==
    /\ BagIn(t, ctasks)
    /\ t.pc = "call"
    /\ CancelTaskStep(t, CancelTask(t.order_id, "finally", FALSE))
    /\ UNCHANGED <<get_balances_function, lock, shared, refresher, ptasks, keeper>>

\* lines 284-286.  set.remove of an absent id raises KeyError after line 285
\* has run; the finally clause runs either way.
CancelRecord(t) ==
    /\ BagIn(t, ctasks)
    /\ t.pc = "record"
    /\ lock = "free"
    /\ cancelled' = cancelled \cup {t.order_id}
    /\ cancelling' = cancelling \ {t.order_id}
    /\ lock' = "free"
    /\ CancelTaskStep(t, CancelTask(t.order_id, "finally", TRUE))
    /\ UNCHANGED <<get_balances_function, state, refresh_count, placing, placed,
                   refresher, ptasks, keeper, remote, seen, used, gave_up>>

\* lines 289-292 left out: a failed cancellation leaves the id in the set
CancellingKept(cing, order_id) == cing

\* lines 289-292: remove order_id, a KeyError is swallowed
CancellingAfterTask(cing, order_id) == cing \ {order_id}

\* lines 288-292, and the task ends
CancelFinally(t) ==
    /\ BagIn(t, ctasks)
    /\ t.pc = "finally"
    /\ lock = "free"
    /\ cancelling' = CancellingAfterTask(cancelling, t.order_id)
    /\ lock' = "free"
    /\ ctasks' = ctasks (-) OneBag(t)
    /\ gave_up' = IF t.ok THEN gave_up ELSE gave_up \cup {t.order_id}
    /\ UNCHANGED <<get_balances_function, state, refresh_count, placing, placed,
                   cancelled, refresher, ptasks, keeper, remote, seen, used, recorded>>

(* ---------------------------------------------------------------- Keeper *)
\* lines 140-165: wait until self._state is set, then compute `orders` under the lock
GetOrderBookOrders ==
    /\ k_pc = "idle"
    /\ state # Absent
    /\ lock = "free"
    /\ k_orders' = [k_orders EXCEPT !.orders = ComposedOrders]
    /\ k_atomic' = <<[balances |-> state[1].balances,
                      hidden |-> cancelling \cup cancelled,
                      tasks |-> ptasks # EmptyBag]>>
    /\ lock' = "free"
    /\ k_pc' = "balances"
    /\ UNCHANGED <<get_balances_function, shared, refresher, ptasks, ctasks, k_old, env>>

\* line 170 with the balances left out of the View
GetOrderBookNoBalances ==
    /\ k_pc = "balances"
    /\ k_orders' = [k_orders EXCEPT !.balances = None]
    /\ k_pc' = "placing"
    /\ UNCHANGED <<get_balances_function, lock, shared, refresher, ptasks, ctasks,
                   k_atomic, k_old, env>>

\* line 170: balances=self._state['balances'], read with the lock released
GetOrderBookBalances ==
    /\ k_pc = "balances"
    /\ k_orders' = [k_orders EXCEPT !.balances = state[1].balances]
    /\ k_pc' = "placing"
    /\ UNCHANGED <<get_balances_function, lock, shared, refresher, ptasks, ctasks,
                   k_atomic, k_old, env>>

\* line 171: orders_being_placed=self._currently_placing_orders > 0
GetOrderBookPlacing ==
    /\ k_pc = "placing"
    /\ k_orders' = [k_orders EXCEPT !.placing = placing > 0]
    /\ k_pc' = "cancelling"
    /\ UNCHANGED <<get_balances_function, lock, shared, refresher, ptasks, ctasks,
                   k_atomic, k_old, env>>

\* lines 169-172: the OrderBook being returned, once orders, balances and
\* orders_being_placed are evaluated and len(self._order_ids_cancelling) is read
ReturnedView ==
    OrderBook(k_orders.orders, k_orders.balances, k_orders.placing,
              Cardinality(cancelling) > 0)

\* line 172: orders_being_cancelled is read and ReturnedView goes to the caller
GetOrderBookReturn ==
    /\ k_pc = "cancelling"
    /\ k_orders' = NoOrders
    /\ k_atomic' = Absent
    /\ k_pc' = "idle"
    /\ UNCHANGED <<get_balances_function, lock, shared, refresher, ptasks, ctasks, k_old, env>>

\* wait_for_order_book_refresh, lines 212-213: old_counter = self._refresh_count
WaitForOrderBookRefreshStarts ==
    /\ k_pc = "idle"
    /\ lock = "free"
    /\ k_old' = refresh_count
    /\ lock' = "free"
    /\ k_pc' = "wait_refresh"
    /\ UNCHANGED <<get_balances_function, shared, refresher, ptasks, ctasks, k_orders,
                   k_atomic, env>>

\* line 219 with >= for >
SameOrNewer(new_counter, old_counter) == new_counter >= old_counter

\* line 219: new_counter > old_counter
Newer(new_counter, old_counter) == new_counter > old_counter

\* lines 215-220: the pass of the loop that reads a newer counter and breaks.
\* A pass that does not (lines 216-222) changes nothing and is left to
\* stuttering.
WaitForOrderBookRefreshReturns ==
    /\ k_pc = "wait_refresh"
    /\ lock = "free"
    /\ Newer(refresh_count, k_old)
    /\ lock' = "free"
    /\ k_pc' = "idle"
    /\ UNCHANGED <<get_balances_function, shared, refresher, ptasks, ctasks, k_orders,
                   k_atomic, k_old, env>>

\* place_order, lines 182-185: count the placement, start the task
PlaceOrder ==
    /\ k_pc = "idle"
    /\ placing + Len(placed) < MaxPlaced
    /\ lock = "free"
    /\ placing' = placing + 1
    /\ lock' = "free"
    /\ ptasks' = ptasks (+) OneBag(PlaceTask("call", NoOrder))
    /\ UNCHANGED <<get_balances_function, state, refresh_count, placed, cancelling,
                   cancelled, refresher, ctasks, keeper, env>>

\* cancel_order(order_id, ...), lines 200-203: hide the id, start the task
CancelOrder(order_id) ==
    /\ k_pc = "idle"
    /\ BagCardinality(ctasks) < MaxCancelling
    /\ lock = "free"
    /\ cancelling' = cancelling \cup {order_id}
    /\ lock' = "free"
    /\ ctasks' = ctasks (+) OneBag(CancelTask(order_id, "call", FALSE))
    /\ gave_up' = gave_up \ {order_id}
    /\ UNCHANGED <<get_balances_function, state, refresh_count, placing, placed,
                   cancelled, refresher, ptasks, keeper, remote, seen, used, recorded>>

(* --------------------------------------------------------- specification *)
\* steps that involve no collaborator
Internal ==
    \/ RefreshCapture
    \/ GetBalancesReturns
    \/ GetOrderBookOrders
    \/ GetOrderBookBalances
    \/ GetOrderBookPlacing
    \/ GetOrderBookReturn
    \/ PlaceOrder
    \/ \E order_id \in Ids : CancelOrder(order_id)
    \/ \E t \in BagToSet(ptasks) : PlaceAppend(t)
    \/ \E t \in BagToSet(ptasks) : PlaceFinally(t)
    \/ \E t \in BagToSet(ctasks) : CancelFinally(t)

\* the collaborators answer anything their signatures allow
Collaborators ==
    \/ GetOrdersReturns /\ UNCHANGED <<remote, seen>>
    \/ GetOrdersRaises
    \/ GetBalancesRaises
    \/ \E orders \in ProviderResults : \E balances \in BalancesResults :
          Reconcile(orders, balances)
    \/ \E t \in BagToSet(ptasks) : \E o \in Orders \cup {NoOrder} : PlacerReturns(t, o) /\ UNCHANGED env
    \/ \E t \in BagToSet(ptasks) : PlacerRaises(t) /\ UNCHANGED env
    \/ \E t \in BagToSet(ctasks) : \E b \in BOOLEAN : CancellerReturns(t, b) /\ UNCHANGED env
    \/ \E t \in BagToSet(ctasks) : CancellerRaises(t) /\ UNCHANGED env

\* line 285 as the program runs it
Recording == \E t \in BagToSet(ctasks) : CancelRecord(t) /\ UNCHANGED recorded

Next == Internal \/ Recording \/ Collaborators

Spec == Init /\ [][Next]_vars

(* ------------------------------------------------- the exchange, modelled *)
\* The remote API the collaborators talk to: every order it opens gets an id
\* it never handed out before, a cancellation it confirms closes the order,
\* and the orders-provider lists the orders open when it answers (so every
\* cancellation and placement confirmed before the request is reflected).

\* the orders the exchange can open next
Fresh == {o \in Orders : o.order_id \notin used}

\* the exchange opens `o`
Opens(o) ==
    /\ remote' = remote \cup {o}
    /\ used' = used \cup {o.order_id}
    /\ UNCHANGED <<seen, recorded, gave_up>>

\* the exchange closes the order `order_id`
Closes(order_id) ==
    /\ remote' = {o \in remote : o.order_id # order_id}
    /\ UNCHANGED <<seen, used, recorded, gave_up>>

IsOpen(order_id) == \E o \in remote : o.order_id = order_id

\* the lists the orders-provider may return for the open orders it saw
SeenResults == {s \in ListsOf(seen) : Range(s) = seen}

\* the exchange opens `o` for the placer call of task `t`, which has not
\* returned yet (line 266 is still in progress)
PlacerOpens(t, o) ==
    /\ BagIn(t, ptasks)
    /\ t.pc = "call"
    /\ t.order = NoOrder
    /\ PlaceTaskStep(t, PlaceTask("call", o))
    /\ Opens(o)
    /\ UNCHANGED <<get_balances_function, lock, shared, refresher, ctasks, keeper>>

\* line 266 returns the order the exchange opened for the call
PlacerReturnsOpened(t) ==
    /\ t.order # NoOrder
    /\ PlacerReturns(t, t.order)
    /\ UNCHANGED env

\* an open order is filled or expires on the exchange
RemoteFill ==
    /\ \E o \in remote : Closes(o.order_id)
    /\ UNCHANGED <<get_balances_function, lock, shared, refresher, ptasks, ctasks, keeper>>

\* line 285 with the confirmed cancellation noted
RecordingR ==
    \E t \in BagToSet(ctasks) : CancelRecord(t) /\ recorded' = recorded \cup {t.order_id}

CollaboratorsR ==
    \/ GetOrdersReturns /\ seen' = remote /\ UNCHANGED remote
    \/ GetOrdersRaises
    \/ GetBalancesRaises
    \/ \E orders \in SeenResults : \E balances \in BalancesResults :
          Reconcile(orders, balances)
    \/ \E t \in BagToSet(ptasks) : \E o \in Fresh : PlacerReturns(t, o) /\ Opens(o)
    \/ \E t \in BagToSet(ptasks) : PlacerReturns(t, NoOrder) /\ UNCHANGED env
    \/ \E t \in BagToSet(ptasks) : PlacerRaises(t) /\ UNCHANGED env
    \/ \E t \in BagToSet(ptasks) : \E o \in Fresh : PlacerRaises(t) /\ Opens(o)
    \/ \E t \in BagToSet(ptasks) : \E o \in Fresh : PlacerOpens(t, o)
    \/ \E t \in BagToSet(ptasks) : PlacerReturnsOpened(t)
    \/ \E t \in BagToSet(ctasks) :
          CancellerReturns(t, TRUE) /\ IsOpen(t.order_id) /\ Closes(t.order_id)
    \/ \E t \in BagToSet(ctasks) : CancellerReturns(t, FALSE) /\ UNCHANGED env
    \/ \E t \in BagToSet(ctasks) : CancellerRaises(t) /\ UNCHANGED env
    \/ \E t \in BagToSet(ctasks) : CancellerRaises(t) /\ Closes(t.order_id)
    \/ RemoteFill

NextR == Internal \/ RecordingR \/ CollaboratorsR

\* the program against the exchange
SpecR == Init /\ [][NextR]_vars

(* ---------------------------------------------------------------- claims *)
\* get_order_book can enter its lock block; ComposedOrders is the list it computes
CanCompute == k_pc = "idle" /\ state # Absent /\ lock = "free"

\* get_order_book is past line 165: `orders` is computed
Computed == k_pc # "idle"

\* get_order_book is at its return: ReturnedView is what the caller gets
Returning == k_pc = "cancelling"

\* C1: no order of a returned View has an id that was in
\* _order_ids_cancelling or _order_ids_cancelled when `orders` was computed.
C1_NoCancelledOrderInView ==
    Computed => OrderIds(ReturnedView.orders) \cap k_atomic[1].hidden = {}

\* a View is returned that hides the polled order 1, which was being
\* cancelled or already cancelled when the list was computed
C1_Witness ==
    /\ Returning
    /\ 1 \in k_atomic[1].hidden
    /\ 1 \in OrderIds(state[1].orders)
    /\ ReturnedView.orders = <<>>

\* C2: provider results having pairwise distinct ids, the orders of every
\* returned View have pairwise distinct ids.
C2_DistinctOrderIds ==
    Computed => DistinctIds(ReturnedView.orders)

\* a View of one order is returned while the snapshot lists order 1 and
\* _orders_placed holds two more orders with that id
C2_Witness ==
    /\ Returning
    /\ Len(ReturnedView.orders) = 1
    /\ k_atomic[1].hidden = {}
    /\ Len(state[1].orders) = 1
    /\ Len(placed) = 2
    /\ placed[1] # placed[2]

\* a step that completes a poll cycle (lines 243-252 ran to the end)
PollSucceeds == r_pc = "reconcile" /\ refresh_count' = refresh_count + 1

\* C3: a successful poll cycle removes from _order_ids_cancelled exactly the
\* ids captured before the provider call and from _orders_placed exactly the
\* entries captured then (the first r_len of the list): what was added since
\* the capture is kept, and nothing that was captured is left.
C3_PollRemovesExactlyCaptured ==
    [][PollSucceeds =>
          /\ cancelled' = cancelled \ r_before.cancelled
          /\ placed' = SubSeq(placed, r_len + 1, Len(placed))]_vars

\* C4: against an exchange whose poll results reflect every cancellation
\* confirmed before the poll and which never hands out an id twice, once a
\* cancellation task has recorded a confirmed cancellation of an id, no View
\* computed afterwards contains that id.
C4_CancelledNeverReturns ==
    CanCompute => OrderIds(ComposedOrders) \cap recorded = {}

\* the returned View says no placement is in flight and yet omits an order
\* that a placement task has appended to _orders_placed
OmitsPlacedOrder ==
    /\ ~ReturnedView.orders_being_placed
    /\ \E o \in Range(placed) :
          o.order_id \notin OrderIds(ReturnedView.orders) \cup k_atomic[1].hidden

\* C5: every returned View is a consistent composite, all of its fields being
\* read under the lock from one state: it never says orders_being_placed is
\* false while omitting an order appended before the View was returned, and
\* its balances are those of the poll its orders come from.
C5_ViewIsConsistentComposite ==
    Returning => /\ ~OmitsPlacedOrder
                 /\ ReturnedView.balances = k_atomic[1].balances

\* C6: once cancel_order(id, ...) has returned, every View computed while
\* the cancellation task of that call has not finished leaves id out of its
\* orders, whatever the other calls and polls do (another cancel_order on the
\* same id included).
C6_HiddenWhileTaskRuns ==
    CanCompute => \A t \in BagToSet(ctasks) : t.order_id \notin OrderIds(ComposedOrders)

\* the ids get_order_book finds in the snapshot or in _orders_placed
KnownIds == OrderIds(state[1].orders) \cup OrderIds(placed)

\* C7 as stated: a View returned while a placement task runs has
\* orders_being_placed true; once the task has appended its order and no poll
\* has removed it, every View computed contains the order's id, and has
\* orders_being_placed false when no placement is in flight.
C7_PlacedOrderAlwaysListed ==
    /\ Returning /\ ptasks # EmptyBag => ReturnedView.orders_being_placed
    /\ CanCompute => OrderIds(placed) \subseteq OrderIds(ComposedOrders)
    /\ Returning /\ ~k_atomic[1].tasks => ~ReturnedView.orders_being_placed

\* C7: a View returned while a placement task runs has orders_being_placed
\* true; once the task has appended its order and no poll has removed it,
\* every View computed contains the order's id unless that id is in
\* _order_ids_cancelling or _order_ids_cancelled, and has orders_being_placed
\* false when no placement is in flight.
C7_PlacedOrderListedUnlessCancelled ==
    /\ Returning /\ ptasks # EmptyBag => ReturnedView.orders_being_placed
    /\ CanCompute =>
          OrderIds(placed) \ (cancelling \cup cancelled) \subseteq OrderIds(ComposedOrders)
    /\ Returning /\ ~k_atomic[1].tasks => ~ReturnedView.orders_being_placed

\* every placement task has finished, no poll has run since the first one, and
\* the View returned lists the placed order with orders_being_placed false
C7_Witness ==
    /\ Returning
    /\ ptasks = EmptyBag
    /\ ~k_atomic[1].tasks
    /\ state[1].orders = <<>>
    /\ placed # <<>>
    /\ OrderIds(placed) \subseteq OrderIds(ReturnedView.orders)
    /\ ~ReturnedView.orders_being_placed

\* the step in which the cancellation task `t`, whose canceller returned a
\* falsy value or raised, ends (lines 288-292)
FailedCancelEnds(t) ==
    /\ t.pc = "finally"
    /\ ~t.ok
    /\ CopiesIn(t, ctasks') < CopiesIn(t, ctasks)

\* C8 as stated: when a cancellation task ends without a confirmation, its id
\* is afterwards in neither _order_ids_cancelling nor _order_ids_cancelled,
\* the next View lists it again if the snapshot or _orders_placed holds it,
\* and no other task is started.
C8_FailedCancelReappears ==
    [][\A t \in BagToSet(ctasks) :
          FailedCancelEnds(t) =>
              /\ t.order_id \notin cancelling'
              /\ t.order_id \notin cancelled'
              /\ state' # Absent /\ t.order_id \in KnownIds' =>
                     t.order_id \in OrderIds(ComposedOrders')
              /\ ctasks' = ctasks (-) OneBag(t)]_vars

\* C8: when a cancellation task ends without a confirmation, its id is
\* afterwards not in _order_ids_cancelling and the task has added nothing to
\* _order_ids_cancelled; the next View lists the id again if the snapshot or
\* _orders_placed holds it and the id is not in _order_ids_cancelled (where
\* only a confirmed cancellation of the same id can have put it); no other
\* task is started.
C8_FailedCancelReappearsUnlessConfirmed ==
    [][\A t \in BagToSet(ctasks) :
          FailedCancelEnds(t) =>
              /\ t.order_id \notin cancelling'
              /\ cancelled' = cancelled
              /\ state' # Absent /\ t.order_id \in KnownIds' /\ t.order_id \notin cancelled' =>
                     t.order_id \in OrderIds(ComposedOrders')
              /\ ctasks' = ctasks (-) OneBag(t)]_vars

\* the cancellation of the polled order 1 has failed, its task is over, and
\* the View get_order_book computes lists the order again
C8_Witness ==
    /\ 1 \in gave_up
    /\ ctasks = EmptyBag
    /\ CanCompute
    /\ 1 \in OrderIds(state[1].orders)
    /\ 1 \in OrderIds(ComposedOrders)

\* a step of the refresher out of a provider call that did not return
ProviderFails ==
    \/ r_pc = "get_orders" /\ r_pc' \notin {"get_orders", "get_balances", "reconcile"}
    \/ r_pc = "get_balances" /\ r_pc' \notin {"get_balances", "reconcile"}

\* C9: a poll cycle in which a provider fails changes neither the snapshot,
\* nor _orders_placed, _order_ids_cancelled, _order_ids_cancelling,
\* _currently_placing_orders and _refresh_count (the balances provider
\* failing after the orders provider answered included), and the refresher
\* goes on to its next cycle.
C9_FailedPollChangesNothing ==
    /\ [][ProviderFails => UNCHANGED shared /\ r_pc' = "failed"]_vars
    /\ [][r_pc # "reconcile" /\ r_pc' # r_pc => UNCHANGED shared]_vars
    /\ [](r_pc = "failed" /\ lock = "free" /\ refresh_count < MaxRefresh
              => ENABLED RefreshCapture)

\* a poll has failed after an earlier one succeeded, with both trackers in use
C9_Witness ==
    /\ r_pc = "failed"
    /\ get_balances_function
    /\ state # Absent
    /\ refresh_count = 1
    /\ cancelled # {}
    /\ placed # <<>>
    /\ cancelling # {}
    /\ placing > 0

\* a call to a provider, a placer or a canceller is in progress
CollaboratorCalled ==
    \/ r_pc \in {"get_orders", "get_balances"}
    \/ \E t \in BagToSet(ptasks) : t.pc = "call"
    \/ \E t \in BagToSet(ctasks) : t.pc = "call"

\* C10: nobody holds the lock while a collaborator is being called, so that
\* with such a call hung get_order_book (once a snapshot exists), place_order
\* and cancel_order still get the lock.
C10_NoLockAcrossCalls ==
    CollaboratorCalled =>
        /\ lock = "free"
        /\ k_pc = "idle" /\ state # Absent => ENABLED GetOrderBookOrders
        /\ k_pc = "idle" /\ placing + Len(placed) < MaxPlaced => ENABLED PlaceOrder
        /\ k_pc = "idle" /\ BagCardinality(ctasks) < MaxCancelling =>
               \A order_id \in Ids : ENABLED CancelOrder(order_id)

\* the orders provider, a placer and a canceller are all being called while
\* get_order_book, having computed its list under the lock, is returning
C10_Witness ==
    /\ r_pc = "get_orders"
    /\ \E t \in BagToSet(ptasks) : t.pc = "call"
    /\ \E t \in BagToSet(ctasks) : t.pc = "call"
    /\ state # Absent
    /\ Returning

\* the step in which a cancellation task whose id is no longer in
\* _order_ids_cancelling ends (line 290 raises KeyError, line 292 passes)
CleanupOfAbsentId ==
    \E t \in BagToSet(ctasks) :
        /\ t.pc = "finally"
        /\ t.order_id \notin cancelling
        /\ CopiesIn(t, ctasks') < CopiesIn(t, ctasks)

\* C11: the in-flight markers are released on every exit path of a task:
\* _currently_placing_orders always equals the number of unfinished
\* placement tasks (and is never negative), _order_ids_cancelling is empty
\* whenever no cancellation task is unfinished, and the cleanup of an id
\* already absent from _order_ids_cancelling changes no shared field.
C11_MarkersReleased ==
    /\ [](placing = BagCardinality(ptasks) /\ placing >= 0)
    /\ [](ctasks = EmptyBag => cancelling = {})
    /\ [][CleanupOfAbsentId => UNCHANGED <<lock, shared>>]_vars

\* all tasks are over, one placement having appended its order and one
\* cancellation having failed, and both markers are back to nothing
C11_Witness ==
    /\ ptasks = EmptyBag
    /\ ctasks = EmptyBag
    /\ placing = 0
    /\ cancelling = {}
    /\ placed # <<>>
    /\ 1 \in gave_up

(* ------------------------------------------------------------- liveness *)
\* self._refresh_count is an unbounded int of which only
\* wait_for_order_book_refresh reads anything, and only the difference of two
\* reads (line 219).  While no such call is in progress the model may count
\* from 0 again, which lets the refresher poll without end in finitely many
\* states.
CounterRebase ==
    /\ refresh_count = MaxRefresh
    /\ k_pc # "wait_refresh"
    /\ refresh_count' = 0
    /\ UNCHANGED <<get_balances_function, lock, state, placing, placed, cancelling,
                   cancelled, refresher, ptasks, ctasks, keeper, env>>

\* the orders provider answers (line 240 returns)
OrdersAnswered == GetOrdersReturns /\ seen' = remote /\ UNCHANGED remote

\* lines 243-252 run
Reconciled ==
    \E orders \in SeenResults : \E balances \in BalancesResults : Reconcile(orders, balances)

\* a placer call ends, one way or the other
PlacerEnds ==
    \/ \E t \in BagToSet(ptasks) : \E o \in Fresh : PlacerReturns(t, o) /\ Opens(o)
    \/ \E t \in BagToSet(ptasks) : PlacerReturns(t, NoOrder) /\ UNCHANGED env
    \/ \E t \in BagToSet(ptasks) : PlacerRaises(t) /\ UNCHANGED env
    \/ \E t \in BagToSet(ptasks) : \E o \in Fresh : PlacerRaises(t) /\ Opens(o)

\* a canceller call ends, one way or the other
CancellerEnds ==
    \/ \E t \in BagToSet(ctasks) :
          CancellerReturns(t, TRUE) /\ IsOpen(t.order_id) /\ Closes(t.order_id)
    \/ \E t \in BagToSet(ctasks) : CancellerReturns(t, FALSE) /\ UNCHANGED env
    \/ \E t \in BagToSet(ctasks) : CancellerRaises(t) /\ UNCHANGED env
    \/ \E t \in BagToSet(ctasks) : CancellerRaises(t) /\ Closes(t.order_id)

\* the program as set up without get_balances_with()
InitT == Init /\ ~get_balances_function

\* the trackers without a reader: the refresher, place_order, cancel_order
\* and their tasks against the exchange
Trackers ==
    \/ RefreshCapture
    \/ OrdersAnswered
    \/ GetOrdersRaises
    \/ Reconciled
    \/ PlaceOrder
    \/ \E order_id \in Ids : CancelOrder(order_id)
    \/ PlacerEnds
    \/ \E t \in BagToSet(ptasks) : PlaceAppend(t)
    \/ \E t \in BagToSet(ptasks) : PlaceFinally(t)
    \/ CancellerEnds
    \/ RecordingR
    \/ \E t \in BagToSet(ctasks) : CancelFinally(t)
    \/ RemoteFill

\* the trackers with a refresher that polls without end
NextT == Trackers \/ CounterRebase

\* the threads of the program are scheduled: the sleep of line 259 ends and
\* a thread that waits for the lock, or holds no call, takes its next step
Scheduled ==
    /\ WF_vars(RefreshCapture)
    /\ WF_vars(CounterRebase)
    /\ WF_vars(Reconciled)
    /\ WF_vars(\E t \in BagToSet(ptasks) : PlaceAppend(t))
    /\ WF_vars(\E t \in BagToSet(ptasks) : PlaceFinally(t))
    /\ WF_vars(RecordingR)
    /\ WF_vars(\E t \in BagToSet(ctasks) : CancelFinally(t))

\* every call of a placer or a canceller ends
TasksEnd == WF_vars(PlacerEnds) /\ WF_vars(CancellerEnds)

\* the providers answer again and again: the refresher keeps getting to line 243
PollsSucceed == []<>(r_pc = "reconcile")

\* the trackers under the scheduling the threads have
SpecT == InitT /\ [][NextT]_vars /\ Scheduled

\* every id in _order_ids_cancelling or _order_ids_cancelled leaves it again,
\* and so does every order in _orders_placed
EntriesRemoved ==
    /\ \A id \in Ids : id \in cancelling ~> id \notin cancelling
    /\ \A id \in Ids : id \in cancelled ~> id \notin cancelled
    /\ \A o \in Orders : o \in Range(placed) ~> o \notin Range(placed)

\* C12 as stated: every entry added to _orders_placed, _order_ids_cancelling or
\* _order_ids_cancelled is eventually removed again.
C12_EveryEntryRemoved == EntriesRemoved

\* C12: provided every placer and canceller call ends and the providers keep
\* answering, every entry added to _orders_placed, _order_ids_cancelling or
\* _order_ids_cancelled is eventually removed again, by a later poll or by
\* the task itself.
C12_EveryEntryRemovedIfCallsEnd == TasksEnd /\ PollsSucceed => EntriesRemoved

\* the second poll has retired a placed order and a recorded cancellation,
\* and no task is left
C12_Witness ==
    /\ refresh_count = MaxRefresh
    /\ 1 \in recorded
    /\ used # {}
    /\ placed = <<>>
    /\ cancelled = {}
    /\ cancelling = {}
    /\ ptasks = EmptyBag
    /\ ctasks = EmptyBag

\* the trackers and a keeper that calls wait_for_order_book_refresh
NextW ==
    \/ Trackers
    \/ WaitForOrderBookRefreshStarts
    \/ WaitForOrderBookRefreshReturns

\* the keeper thread is scheduled: the sleep of line 222 ends
SpecW == InitT /\ [][NextW]_vars /\ WF_vars(WaitForOrderBookRefreshReturns)

\* wait_for_order_book_refresh is in its loop
Waiting == k_pc = "wait_refresh"

\* C13: wait_for_order_book_refresh returns only once _refresh_count is
\* above the value it read when called; the counter goes up by exactly one
\* in each successful poll and in no other step, a failed poll included, so
\* that the call cannot return while every poll fails; and once a poll has
\* succeeded after the call, the call returns.
C13_ReturnsAfterRefresh ==
    /\ [][Waiting /\ ~Waiting' => refresh_count > k_old]_vars
    /\ [](Waiting /\ refresh_count = k_old => ~ENABLED WaitForOrderBookRefreshReturns)
    /\ [][r_pc = "reconcile" /\ r_pc' = "idle" => refresh_count' = refresh_count + 1]_vars
    /\ [][refresh_count' # refresh_count =>
             r_pc = "reconcile" /\ r_pc' = "idle" /\ refresh_count' = refresh_count + 1]_vars
    /\ [][ProviderFails => refresh_count' = refresh_count]_vars
    /\ (Waiting /\ refresh_count > k_old) ~> ~Waiting

\* a call made after the first successful poll has returned after the second
C13_Witness ==
    /\ k_pc = "idle"
    /\ k_old = 1
    /\ refresh_count = 2

\* a canceller is being called: its cancellation task has not finished
CancellerCalled == \E t \in BagToSet(ctasks) : t.pc = "call"

\* wait_for_order_cancellation, line 207: the loop condition fails, the call returns
WaitForOrderCancellationReturns == k_pc = "idle" /\ ~(Cardinality(cancelling) > 0)

\* wait_for_stable_order_book, lines 227-229: the View get_order_book
\* returns makes the loop break
WaitForStableOrderBookReturns ==
    /\ Returning
    /\ ~ReturnedView.orders_being_cancelled
    /\ ~ReturnedView.orders_being_placed

\* C14: orders_being_cancelled is true in every View returned while a
\* cancellation task has not finished, and wait_for_order_cancellation and
\* wait_for_stable_order_book return only when no cancellation task is
\* running, several cancel_order calls on one id included.
C14_CancellationsAreSeen ==
    /\ Returning /\ CancellerCalled => ReturnedView.orders_being_cancelled
    /\ WaitForOrderCancellationReturns => ~CancellerCalled
    /\ WaitForStableOrderBookReturns => ~CancellerCalled

\* C15: get_order_book returns no View while self._state is None: it waits
\* for the first successful poll (so for ever when every poll fails), goes on
\* to its return once there is a snapshot, and the snapshot, once set by a
\* successful poll, is never None again.
C15_NoViewBeforeFirstPoll ==
    /\ [](Computed => state # Absent)
    /\ [](k_pc = "idle" /\ state = Absent => ~ENABLED GetOrderBookOrders)
    /\ [](k_pc = "idle" /\ state # Absent => ENABLED GetOrderBookOrders)
    /\ [](k_pc = "balances" => ENABLED GetOrderBookBalances)
    /\ [](k_pc = "placing" => ENABLED GetOrderBookPlacing)
    /\ [](k_pc = "cancelling" => ENABLED GetOrderBookReturn)
    /\ [][state = Absent /\ state' # Absent => r_pc = "reconcile" /\ r_pc' = "idle"]_vars
    /\ [][state # Absent => state' # Absent]_vars

\* a View is being returned after the first poll succeeded and the next failed
C15_Witness ==
    /\ Returning
    /\ refresh_count = 1
    /\ r_pc = "failed"
    /\ state # Absent

\* the placement task `t` is still in its placer call, and the exchange has
\* already opened the order the call will return
BeingPlaced(t) == t.pc = "call" /\ t.order # NoOrder

\* C16: an order that is being placed, the placer not having returned it
\* yet, is in no View, also when a poll that sees the order on the exchange
\* completes during the placer call.
C16_OrderBeingPlacedNotListed ==
    CanCompute =>
        \A t \in BagToSet(ptasks) :
            BeingPlaced(t) => t.order.order_id \notin OrderIds(ComposedOrders)

\* C17: place_order, cancel_order and their tasks leave the balances of the
\* snapshot alone: only a reconciliation changes self._state, to what the
\* providers returned; the balances of a returned View are a value of the
\* balances provider, the one in the snapshot when line 170 reads it, and
\* None when no balances provider is configured.
C17_BalancesFromProvider ==
    /\ [][state' # state =>
             /\ r_pc = "reconcile" /\ r_pc' = "idle"
             /\ state'[1].balances \in BalancesResults]_vars
    /\ [][k_pc = "balances" /\ k_pc' = "placing" => k_orders'.balances = state[1].balances]_vars
    /\ [](Returning => ReturnedView.balances \in BalancesResults)
    /\ [](Returning /\ ~get_balances_function => ReturnedView.balances = None)
    /\ [](Returning /\ get_balances_function => ReturnedView.balances \in BalanceVals)

\* a View with provider balances is being returned while an order is placed,
\* one is appended and a cancellation is recorded
C17_Witness ==
    /\ Returning
    /\ get_balances_function
    /\ ReturnedView.balances \in BalanceVals
    /\ ReturnedView.balances = state[1].balances
    /\ placed # <<>>
    /\ cancelled # {}
    /\ ptasks # EmptyBag

(* ------------------------------------------------- eventual consistency *)
\* the program with every thread scheduled, every placer and canceller call
\* terminating and the providers answering again and again
SpecE == SpecT /\ TasksEnd /\ PollsSucceed

\* a step that launches no place_order and no cancel_order and leaves the
\* open orders of the exchange as they are
QuietStep ==
    /\ placing' <= placing
    /\ BagCardinality(ctasks') <= BagCardinality(ctasks)
    /\ remote' = remote

\* nothing is pending and get_order_book lists the open orders of the exchange
Drained ==
    /\ placing = 0
    /\ cancelling = {}
    /\ cancelled = {}
    /\ placed = <<>>
    /\ state # Absent
    /\ Range(ComposedOrders) = remote

\* C18: under fair scheduling, with every collaborator call terminating and
\* polls succeeding infinitely often, if from some point on no place_order
\* or cancel_order is launched and the open orders of the exchange stop
\* changing, then eventually placing is 0, the three trackers are empty and
\* the orders of the View are the open orders of the exchange, from then on.
C18_EventuallyConsistent == <>[][QuietStep]_vars => <>[]Drained

\* an order was placed and polled, and nothing is pending any more
C18_Witness ==
    /\ Drained
    /\ remote # {}
    /\ used # {}
    /\ refresh_count = MaxRefresh
    /\ ptasks = EmptyBag
    /\ ctasks = EmptyBag

(* ------------------------------------------- get_order_book on its own *)
\* the largest order id of the books get_order_book is applied to
MaxId == 3

BookIds == 1..MaxId

\* Order(1), Order(2), Order(3), and a second Order object with the id 1
BookOrders == {[order_id |-> i, tag |-> "x"] : i \in BookIds}
OtherOrder == [order_id |-> 1, tag |-> "y"]

\* self._state['orders']: what a poll stored, pairwise distinct ids
SnapshotLists ==
    {s \in UNION {[1..n -> BookOrders] : n \in 0..MaxId} : DistinctIds(s)}

\* self._orders_placed: the orders the placement tasks appended
PlacedLists == UNION {[1..n -> BookOrders \cup {OtherOrder}] : n \in 0..MaxPlaced}

\* the manager after a first poll, with the trackers as place_order and
\* cancel_order tasks may have left them; a task is running for every id
\* of self._order_ids_cancelling
InitC ==
    /\ get_balances_function = FALSE
    /\ lock = "free"
    /\ \E s \in SnapshotLists : state = <<[orders |-> s, balances |-> None]>>
    /\ refresh_count = 1
    /\ placing = 0
    /\ placed \in PlacedLists
    /\ cancelling \in SUBSET BookIds
    /\ cancelled \in SUBSET BookIds
    /\ r_pc = "idle"
    /\ r_before = NoLocals
    /\ r_len = 0
    /\ ptasks = EmptyBag
    /\ ctasks = SetToBag({CancelTask(id, "call", FALSE) : id \in cancelling})
    /\ k_pc = "idle"
    /\ k_orders = NoOrders
    /\ k_atomic = Absent
    /\ k_old = 0
    /\ remote = {}
    /\ seen = {}
    /\ used = {}
    /\ recorded = {}
    /\ gave_up = {}

\* get_order_book, lines 144-172
NextC ==
    \/ GetOrderBookOrders
    \/ GetOrderBookBalances
    \/ GetOrderBookPlacing
    \/ GetOrderBookReturn

SpecC == InitC /\ [][NextC]_vars

\* the entries of the placed list that the reference merge appends: those
\* whose id is neither in the snapshot nor the id of an earlier entry
Appended(snapshot, pl) ==
    {i \in DOMAIN pl : /\ pl[i].order_id \notin OrderIds(snapshot)
                       /\ \A j \in 1..(i - 1) : pl[j].order_id # pl[i].order_id}

\* the entries of `pl` at the positions `I`, from position `i` on, in order
RECURSIVE EntriesAt(_, _, _)
EntriesAt(pl, I, i) ==
    IF i > Len(pl) THEN <<>>
    ELSE (IF i \in I THEN <<pl[i]>> ELSE <<>>) \o EntriesAt(pl, I, i + 1)

\* the reference merge of the snapshot with the three trackers
ReferenceMerge(snapshot, pl, cing, ced) ==
    LET merged == snapshot \o EntriesAt(pl, Appended(snapshot, pl), 1)
    IN SelectSeq(merged, LAMBDA o : o.order_id \notin (cing \cup ced))

\* the list [Order(ids[1]), Order(ids[2]), ...]
Listing(ids) == [i \in DOMAIN ids |-> [order_id |-> ids[i], tag |-> "x"]]

\* C19: with a snapshot present, the orders of the View are the reference
\* merge: the snapshot's orders in provider order, then each placed order,
\* in placement order, whose id is not yet in the list, and then every order
\* whose id is being cancelled or was cancelled removed.  Snapshot [1,2]
\* with 3 placed gives [1,2,3], and so does the snapshot [1,2,3].
C19_ViewIsReferenceMerge ==
    /\ CanCompute =>
          ComposedOrders = ReferenceMerge(state[1].orders, placed, cancelling, cancelled)
    /\ Computed =>
          k_orders.orders = ReferenceMerge(state[1].orders, placed, cancelling, cancelled)
    /\ /\ Returning
       /\ state[1].orders = Listing(<<1, 2>>)
       /\ placed = Listing(<<3>>)
       /\ cancelling \cup cancelled = {}
       => ReturnedView.orders = Listing(<<1, 2, 3>>)
    /\ /\ Returning
       /\ state[1].orders = Listing(<<1, 2, 3>>)
       /\ placed \in {Listing(<<3>>), <<>>}
       /\ cancelling \cup cancelled = {}
       => ReturnedView.orders = Listing(<<1, 2, 3>>)

\* get_order_book returns [1,2,3] for the snapshot [1,2] with Order(3) placed
C19_Witness ==
    /\ Returning
    /\ state[1].orders = Listing(<<1, 2>>)
    /\ placed = Listing(<<3>>)
    /\ cancelling \cup cancelled = {}
    /\ ReturnedView.orders = Listing(<<1, 2, 3>>)

(* ------------------------------------------- placed orders stay listed *)
\* the id is an id of the polled snapshot
Polled(id) == state # Absent /\ id \in OrderIds(state[1].orders)

\* the id is in neither self._order_ids_cancelling nor self._order_ids_cancelled
NotHidden(id) == id \notin cancelling /\ id \notin cancelled

\* C20: against the exchange, whose poll results hold every order open when
\* it answers, an order a placement task appended is in every later View
\* while it stays open and its id is neither being cancelled nor recorded
\* as cancelled: it is listed while it is in self._orders_placed; the poll
\* that retires it from self._orders_placed stores a snapshot that holds it;
\* every later snapshot holds it while it is open, whatever polls fail; and
\* a polled id that is not hidden is in the View.
C20_PlacedOrderStaysListed ==
    /\ [](CanCompute =>
            \A o \in Range(placed) :
                NotHidden(o.order_id) => o.order_id \in OrderIds(ComposedOrders))
    /\ [][\A o \in Range(placed) :
            o \notin Range(placed') /\ IsOpen(o.order_id)' => Polled(o.order_id)']_vars
    /\ [][\A id \in Ids :
            Polled(id) /\ IsOpen(id)' => Polled(id)']_vars
    /\ [](CanCompute =>
            \A id \in Ids :
                Polled(id) /\ NotHidden(id) => id \in OrderIds(ComposedOrders))

\* a View listing the appended order is being returned after a poll and a
\* failed cancellation, while the next poll, which captured the order and
\* was answered, is about to retire it
C20_Witness ==
    /\ Returning
    /\ 1 \in OrderIds(ReturnedView.orders)
    /\ IsOpen(1)
    /\ r_pc = "reconcile"
    /\ r_before.placed # {}
    /\ refresh_count = 1
    /\ 1 \in gave_up

====
